---- MODULE Spec2Model ----
(***************************************************************************)
(* Model of the solana-escrow-engine on-chain program                      *)
(* (programs/solana-escrow-engine/src/lib.rs).                             *)
(*                                                                         *)
(* The state is what the five instructions read and write: the Escrow      *)
(* accounts (one per (buyer, mint) seed pair), their vault token accounts, *)
(* the parties' token balances and the cluster clock.  Every instruction   *)
(* is one atomic step: account validation (the #[derive(Accounts)]         *)
(* structs), then the handler, then the runtime's commit of the result     *)
(* (an Err discards every write of the instruction).                       *)
(***************************************************************************)
EXTENDS Integers, FiniteSets, Sequences, TLC

(* ------------------------------ bounds --------------------------------- *)
\* the clock runs over 1..MaxTime
MaxTime == 3
\* create_escrow is called with timeout_duration in -1..MaxDuration
MaxDuration == 1
\* tokens the buyer holds at the start; create_escrow is called with amount
\* in 0..InitBalance+1
InitBalance == 1

Parties == {"alice", "bob", "carol"}
Mints == {"usdc"}
\* The model follows the escrows of one depositing party: bob and carol act
\* as sellers, resolvers and unauthorised callers of alice's escrow.
Buyers == {"alice"}
Keys == Buyers \X Mints                  \* seeds of an Escrow account
Descriptions == {"widget"}
Amounts == 0..(InitBalance + 1)
Durations == (0 - 1)..MaxDuration

(* --------------------------- account data ------------------------------ *)
PubkeyDefault == "11111111111111111111111111111111"

\* owners a token account can name: a party, or the all-zero key that an
\* Escrow's seller field holds until accept_escrow
Owners == Parties \cup {PubkeyDefault}

EscrowState == {"Created", "Accepted", "Completed", "Cancelled", "TimedOut"}

\* an address at which no Escrow account has been initialised
NoEscrow == [state |-> "None"]
\* the balance slot of a vault token account that has not been initialised
NoVault == 0 - 1

\* a freshly `init`ed Escrow account: the runtime hands out zeroed data
Escrow == [buyer |-> PubkeyDefault, seller |-> PubkeyDefault,
           mint |-> PubkeyDefault, amount |-> 0, state |-> "Created",
           created_at |-> 0, accepted_at |-> 0, completed_at |-> 0,
           cancelled_at |-> 0, timeout_at |-> 0, description |-> ""]

VARIABLES
    escrows,    \* Keys -> Escrow account data, or NoEscrow
    vault,      \* Keys -> balance of the vault token account, or NoVault
    bal,        \* Owners \X Mints -> balance of the owner's token account
    now,        \* Clock::get().unix_timestamp
    released,   \* history: Keys -> total amount moved out of the vault
    releases,   \* history: Keys -> number of transfers out of the vault
    last        \* the last instruction processed and its result

vars == <<escrows, vault, bal, now, released, releases, last>>

\* the accounts an instruction can touch, as one value
World == [escrows |-> escrows, vault |-> vault, bal |-> bal,
          released |-> released, releases |-> releases]

Ok(w) == [err |-> "Ok", st |-> w]
Err(e, w) == [err |-> e, st |-> w]

(* --------------------------- token program ----------------------------- *)
\* token accounts: <<"wallet", owner, mint>> or <<"vault", buyer, mint>>
Wallet(p, m) == <<"wallet", p, m>>
\* mutation: the vault address is derived from the mint alone, so that
\* every escrow of a mint has the same vault
VaultOf_shared(k) == <<"vault", "alice", k[2]>>
VaultOf(k) == <<"vault", k[1], k[2]>>
Slot(a) == <<a[2], a[3]>>

Balance(w, a) == IF a[1] = "vault" THEN w.vault[Slot(a)] ELSE w.bal[Slot(a)]

Debit(w, a, n) ==
    IF a[1] = "vault"
    THEN [w EXCEPT !.vault[Slot(a)] = @ - n,
                   !.released[Slot(a)] = @ + n,
                   !.releases[Slot(a)] = @ + 1]
    ELSE [w EXCEPT !.bal[Slot(a)] = @ - n]

Credit(w, a, n) ==
    IF a[1] = "vault"
    THEN [w EXCEPT !.vault[Slot(a)] = @ + n]
    ELSE [w EXCEPT !.bal[Slot(a)] = @ + n]

\* token::transfer(cpi_ctx, amount)?  -- moves amount from `from` to `to`
\* or fails with the token program's InsufficientFunds
transfer(w, from, to, amount) ==
    IF Balance(w, from) < amount
    THEN Err("InsufficientFunds", w)
    ELSE Ok(Credit(Debit(w, from, amount), to, amount))

(* ------------------- #[derive(Accounts)] validation -------------------- *)
\* `init` of escrow and vault_token_account, then the constraints on
\* buyer_token_account; tok is <<owner, mint>> of the token account passed
\* mutation: init_if_needed instead of init on escrow and vault
CreateEscrow_ifneeded(w, buyer, mint, tok) ==
    LET k == <<buyer, mint>> IN
    IF ~(tok[1] = buyer /\ tok[2] = mint)
    THEN Err("ConstraintRaw", w)
    ELSE Ok([w EXCEPT !.escrows[k] = IF @ = NoEscrow THEN Escrow ELSE @,
                      !.vault[k] = IF @ = NoVault THEN 0 ELSE @])

CreateEscrow(w, buyer, mint, tok) ==
    LET k == <<buyer, mint>> IN
    IF w.escrows[k] # NoEscrow \/ w.vault[k] # NoVault
    THEN Err("AccountInUse", w)
    ELSE IF ~(tok[1] = buyer /\ tok[2] = mint)
    THEN Err("ConstraintRaw", w)
    ELSE Ok([w EXCEPT !.escrows[k] = Escrow, !.vault[k] = 0])

AcceptEscrow(w, k) ==
    IF w.escrows[k] = NoEscrow THEN Err("AccountNotInitialized", w) ELSE Ok(w)

ConfirmDelivery(w, k, tok) ==
    IF w.escrows[k] = NoEscrow
    THEN Err("AccountNotInitialized", w)
    ELSE IF ~(tok[1] = w.escrows[k].seller /\ tok[2] = w.escrows[k].mint)
    THEN Err("ConstraintRaw", w)
    ELSE Ok(w)

CancelEscrow(w, k, buyer, tok) ==
    IF w.escrows[k] = NoEscrow
    THEN Err("AccountNotInitialized", w)
    ELSE IF ~(tok[1] = buyer /\ tok[2] = w.escrows[k].mint)
    THEN Err("ConstraintRaw", w)
    ELSE Ok(w)

\* mutation: the owner/mint constraints on seller_token_account are missing
ResolveTimeout_anyaccount(w, k, resolver, tok) ==
    IF w.escrows[k] = NoEscrow THEN Err("AccountNotInitialized", w) ELSE Ok(w)

\* mutation: a constraint lets only the recorded seller resolve
ResolveTimeout_selleronly(w, k, resolver, tok) ==
    IF w.escrows[k] = NoEscrow
    THEN Err("AccountNotInitialized", w)
    ELSE IF ~(resolver = w.escrows[k].seller)
    THEN Err("ConstraintRaw", w)
    ELSE IF ~(tok[1] = w.escrows[k].seller /\ tok[2] = w.escrows[k].mint)
    THEN Err("ConstraintRaw", w)
    ELSE Ok(w)

\* `resolver` is a Signer that no constraint mentions
ResolveTimeout(w, k, resolver, tok) ==
    IF w.escrows[k] = NoEscrow
    THEN Err("AccountNotInitialized", w)
    ELSE IF ~(tok[1] = w.escrows[k].seller /\ tok[2] = w.escrows[k].mint)
    THEN Err("ConstraintRaw", w)
    ELSE Ok(w)

(* ------------------------------ handlers ------------------------------- *)
\* Each handler returns its Result and the account data as the handler left
\* it; a handler that writes before a failing transfer returns those writes.
\* Clock values and durations stay far below the i64 range, amounts far
\* below the u64 range, so the additions are exact.
\* mutation: escrow.amount is never written
create_escrow_noamount(w, buyer, mint, amount, timeout_duration, description, clock) ==
    LET k == <<buyer, mint>>
        w1 == [w EXCEPT !.escrows[k] =
                  [@ EXCEPT !.buyer = buyer,
                            !.seller = PubkeyDefault,
                            !.mint = mint,
                            !.created_at = clock,
                            !.timeout_at = clock + timeout_duration,
                            !.state = "Created",
                            !.description = description]]
    IN transfer(w1, Wallet(buyer, mint), VaultOf(k), amount)

\* mutation: the result of the deposit transfer is dropped instead of `?`
create_escrow_unchecked(w, buyer, mint, amount, timeout_duration, description, clock) ==
    LET k == <<buyer, mint>>
        w1 == [w EXCEPT !.escrows[k] =
                  [@ EXCEPT !.buyer = buyer,
                            !.seller = PubkeyDefault,
                            !.mint = mint,
                            !.amount = amount,
                            !.created_at = clock,
                            !.timeout_at = clock + timeout_duration,
                            !.state = "Created",
                            !.description = description]]
    IN Ok(transfer(w1, Wallet(buyer, mint), VaultOf(k), amount).st)

create_escrow(w, buyer, mint, amount, timeout_duration, description, clock) ==
    LET k == <<buyer, mint>>
        w1 == [w EXCEPT !.escrows[k] =
                  [@ EXCEPT !.buyer = buyer,
                            !.seller = PubkeyDefault,
                            !.mint = mint,
                            !.amount = amount,
                            !.created_at = clock,
                            !.timeout_at = clock + timeout_duration,
                            !.state = "Created",
                            !.description = description]]
    IN transfer(w1, Wallet(buyer, mint), VaultOf(k), amount)

\* mutation: the state guard of accept_escrow is missing
accept_escrow_anystate(w, k, seller, clock) ==
    LET escrow == w.escrows[k] IN
    IF escrow.seller # PubkeyDefault THEN Err("AlreadyAccepted", w)
    ELSE Ok([w EXCEPT !.escrows[k] = [@ EXCEPT !.seller = seller,
                                               !.state = "Accepted",
                                               !.accepted_at = clock]])

\* mutation: escrow.seller is never written
accept_escrow_noseller(w, k, seller, clock) ==
    LET escrow == w.escrows[k] IN
    IF escrow.state # "Created" THEN Err("InvalidState", w)
    ELSE IF escrow.seller # PubkeyDefault THEN Err("AlreadyAccepted", w)
    ELSE Ok([w EXCEPT !.escrows[k] = [@ EXCEPT !.state = "Accepted",
                                               !.accepted_at = clock]])

\* mutation: the two require! checks of accept_escrow are swapped
accept_escrow_sellerfirst(w, k, seller, clock) ==
    LET escrow == w.escrows[k] IN
    IF escrow.seller # PubkeyDefault THEN Err("AlreadyAccepted", w)
    ELSE IF escrow.state # "Created" THEN Err("InvalidState", w)
    ELSE Ok([w EXCEPT !.escrows[k] = [@ EXCEPT !.seller = seller,
                                               !.state = "Accepted",
                                               !.accepted_at = clock]])

\* mutation: acceptance restarts the deadline
accept_escrow_restart(w, k, seller, clock) ==
    LET escrow == w.escrows[k] IN
    IF escrow.state # "Created" THEN Err("InvalidState", w)
    ELSE IF escrow.seller # PubkeyDefault THEN Err("AlreadyAccepted", w)
    ELSE Ok([w EXCEPT !.escrows[k] =
                [@ EXCEPT !.seller = seller,
                          !.state = "Accepted",
                          !.accepted_at = clock,
                          !.timeout_at = clock + (@ - escrow.created_at)]])

accept_escrow(w, k, seller, clock) ==
    LET escrow == w.escrows[k] IN
    IF escrow.state # "Created" THEN Err("InvalidState", w)
    ELSE IF escrow.seller # PubkeyDefault THEN Err("AlreadyAccepted", w)
    ELSE Ok([w EXCEPT !.escrows[k] = [@ EXCEPT !.seller = seller,
                                               !.state = "Accepted",
                                               !.accepted_at = clock]])

\* mutation: the buyer check of confirm_delivery is missing
confirm_delivery_anycaller(w, k, buyer, tok, clock) ==
    LET escrow == w.escrows[k] IN
    IF escrow.state # "Accepted" THEN Err("InvalidState", w)
    ELSE LET t == transfer(w, VaultOf(k), Wallet(tok[1], tok[2]), escrow.amount)
         IN IF t.err # "Ok" THEN t
            ELSE Ok([t.st EXCEPT !.escrows[k] = [@ EXCEPT !.state = "Completed",
                                                          !.completed_at = clock]])

\* mutation: confirm_delivery refuses once the deadline has passed
confirm_delivery_deadline(w, k, buyer, tok, clock) ==
    LET escrow == w.escrows[k] IN
    IF escrow.state # "Accepted" THEN Err("InvalidState", w)
    ELSE IF escrow.buyer # buyer THEN Err("UnauthorizedBuyer", w)
    ELSE IF clock >= escrow.timeout_at THEN Err("DeadlinePassed", w)
    ELSE LET t == transfer(w, VaultOf(k), Wallet(tok[1], tok[2]), escrow.amount)
         IN IF t.err # "Ok" THEN t
            ELSE Ok([t.st EXCEPT !.escrows[k] = [@ EXCEPT !.state = "Completed",
                                                          !.completed_at = clock]])

\* mutation: completed_at is never written
confirm_delivery_nostamp(w, k, buyer, tok, clock) ==
    LET escrow == w.escrows[k] IN
    IF escrow.state # "Accepted" THEN Err("InvalidState", w)
    ELSE IF escrow.buyer # buyer THEN Err("UnauthorizedBuyer", w)
    ELSE LET t == transfer(w, VaultOf(k), Wallet(tok[1], tok[2]), escrow.amount)
         IN IF t.err # "Ok" THEN t
            ELSE Ok([t.st EXCEPT !.escrows[k] = [@ EXCEPT !.state = "Completed"]])

confirm_delivery(w, k, buyer, tok, clock) ==
    LET escrow == w.escrows[k] IN
    IF escrow.state # "Accepted" THEN Err("InvalidState", w)
    ELSE IF escrow.buyer # buyer THEN Err("UnauthorizedBuyer", w)
    ELSE LET t == transfer(w, VaultOf(k), Wallet(tok[1], tok[2]), escrow.amount)
         IN IF t.err # "Ok" THEN t
            ELSE Ok([t.st EXCEPT !.escrows[k] = [@ EXCEPT !.state = "Completed",
                                                          !.completed_at = clock]])

\* mutation: the state guard of cancel_escrow is missing
cancel_escrow_anystate(w, k, buyer, tok, clock) ==
    LET escrow == w.escrows[k] IN
    IF escrow.buyer # buyer THEN Err("UnauthorizedBuyer", w)
    ELSE LET t == transfer(w, VaultOf(k), Wallet(tok[1], tok[2]), escrow.amount)
         IN IF t.err # "Ok" THEN t
            ELSE Ok([t.st EXCEPT !.escrows[k] = [@ EXCEPT !.state = "Cancelled",
                                                          !.cancelled_at = clock]])

\* mutation: a cancelled escrow and its vault are closed
cancel_escrow_close(w, k, buyer, tok, clock) ==
    LET escrow == w.escrows[k] IN
    IF escrow.state # "Created" THEN Err("InvalidState", w)
    ELSE IF escrow.buyer # buyer THEN Err("UnauthorizedBuyer", w)
    ELSE LET t == transfer(w, VaultOf(k), Wallet(tok[1], tok[2]), escrow.amount)
         IN IF t.err # "Ok" THEN t
            ELSE Ok([t.st EXCEPT !.escrows[k] = NoEscrow, !.vault[k] = NoVault])

\* mutation: the refund withholds one unit
cancel_escrow_partial(w, k, buyer, tok, clock) ==
    LET escrow == w.escrows[k] IN
    IF escrow.state # "Created" THEN Err("InvalidState", w)
    ELSE IF escrow.buyer # buyer THEN Err("UnauthorizedBuyer", w)
    ELSE LET part == IF escrow.amount > 0 THEN escrow.amount - 1 ELSE 0
             t == transfer(w, VaultOf(k), Wallet(tok[1], tok[2]), part)
         IN IF t.err # "Ok" THEN t
            ELSE Ok([t.st EXCEPT !.escrows[k] = [@ EXCEPT !.state = "Cancelled",
                                                          !.cancelled_at = clock]])

cancel_escrow(w, k, buyer, tok, clock) ==
    LET escrow == w.escrows[k] IN
    IF escrow.state # "Created" THEN Err("InvalidState", w)
    ELSE IF escrow.buyer # buyer THEN Err("UnauthorizedBuyer", w)
    ELSE LET t == transfer(w, VaultOf(k), Wallet(tok[1], tok[2]), escrow.amount)
         IN IF t.err # "Ok" THEN t
            ELSE Ok([t.st EXCEPT !.escrows[k] = [@ EXCEPT !.state = "Cancelled",
                                                          !.cancelled_at = clock]])

\* mutation: the state is set without moving the funds
resolve_timeout_notransfer(w, k, tok, clock) ==
    LET escrow == w.escrows[k] IN
    IF escrow.state # "Accepted" THEN Err("InvalidState", w)
    ELSE IF ~(clock >= escrow.timeout_at) THEN Err("TimeoutNotReached", w)
    ELSE Ok([w EXCEPT !.escrows[k] = [@ EXCEPT !.state = "TimedOut",
                                               !.completed_at = clock]])

\* mutation: the deadline comparison is > instead of >=
resolve_timeout_strict(w, k, tok, clock) ==
    LET escrow == w.escrows[k] IN
    IF escrow.state # "Accepted" THEN Err("InvalidState", w)
    ELSE IF ~(clock > escrow.timeout_at) THEN Err("TimeoutNotReached", w)
    ELSE LET t == transfer(w, VaultOf(k), Wallet(tok[1], tok[2]), escrow.amount)
         IN IF t.err # "Ok" THEN t
            ELSE Ok([t.st EXCEPT !.escrows[k] = [@ EXCEPT !.state = "TimedOut",
                                                          !.completed_at = clock]])

\* mutation: the deadline is checked before the state
resolve_timeout_clockfirst(w, k, tok, clock) ==
    LET escrow == w.escrows[k] IN
    IF ~(clock >= escrow.timeout_at) THEN Err("TimeoutNotReached", w)
    ELSE IF escrow.state # "Accepted" THEN Err("InvalidState", w)
    ELSE LET t == transfer(w, VaultOf(k), Wallet(tok[1], tok[2]), escrow.amount)
         IN IF t.err # "Ok" THEN t
            ELSE Ok([t.st EXCEPT !.escrows[k] = [@ EXCEPT !.state = "TimedOut",
                                                          !.completed_at = clock]])

\* mutation: the deadline check of resolve_timeout is missing
resolve_timeout_nodeadline(w, k, tok, clock) ==
    LET escrow == w.escrows[k] IN
    IF escrow.state # "Accepted" THEN Err("InvalidState", w)
    ELSE LET t == transfer(w, VaultOf(k), Wallet(tok[1], tok[2]), escrow.amount)
         IN IF t.err # "Ok" THEN t
            ELSE Ok([t.st EXCEPT !.escrows[k] = [@ EXCEPT !.state = "TimedOut",
                                                          !.completed_at = clock]])

\* mutation: the deadline comparison is inverted
resolve_timeout_inverted(w, k, tok, clock) ==
    LET escrow == w.escrows[k] IN
    IF escrow.state # "Accepted" THEN Err("InvalidState", w)
    ELSE IF ~(clock <= escrow.timeout_at) THEN Err("TimeoutNotReached", w)
    ELSE LET t == transfer(w, VaultOf(k), Wallet(tok[1], tok[2]), escrow.amount)
         IN IF t.err # "Ok" THEN t
            ELSE Ok([t.st EXCEPT !.escrows[k] = [@ EXCEPT !.state = "TimedOut",
                                                          !.completed_at = clock]])

resolve_timeout(w, k, tok, clock) ==
    LET escrow == w.escrows[k] IN
    IF escrow.state # "Accepted" THEN Err("InvalidState", w)
    ELSE IF ~(clock >= escrow.timeout_at) THEN Err("TimeoutNotReached", w)
    ELSE LET t == transfer(w, VaultOf(k), Wallet(tok[1], tok[2]), escrow.amount)
         IN IF t.err # "Ok" THEN t
            ELSE Ok([t.st EXCEPT !.escrows[k] = [@ EXCEPT !.state = "TimedOut",
                                                          !.completed_at = clock]])

(* ------------------------- instruction dispatch ------------------------ *)
\* validation first; the handler runs only on accounts that validated
Then(v, out) == IF v.err # "Ok" THEN v ELSE out

\* the runtime keeps an instruction's writes only when it returned Ok
Commit(w, out) == IF out.err = "Ok" THEN out.st ELSE w

Call(op, caller, k, tok, out) ==
    LET c == Commit(World, out) IN
    /\ escrows' = c.escrows
    /\ vault' = c.vault
    /\ bal' = c.bal
    /\ released' = c.released
    /\ releases' = c.releases
    /\ now' = now
    /\ last' = [op |-> op, caller |-> caller, key |-> k, tok |-> tok,
                err |-> out.err]

(* ------------------------------ actions -------------------------------- *)
Create ==
    \E buyer \in Buyers, mint \in Mints, tok \in Owners \X Mints,
       amount \in Amounts, dur \in Durations, desc \in Descriptions :
        LET v == CreateEscrow(World, buyer, mint, tok) IN
        Call("Create", buyer, <<buyer, mint>>, tok,
             Then(v, create_escrow(v.st, buyer, mint, amount, dur, desc, now)))

Accept ==
    \E seller \in Parties, k \in Keys :
        LET v == AcceptEscrow(World, k) IN
        Call("Accept", seller, k, <<PubkeyDefault, k[2]>>,
             Then(v, accept_escrow(v.st, k, seller, now)))

Confirm ==
    \E buyer \in Parties, k \in Keys, tok \in Owners \X Mints :
        LET v == ConfirmDelivery(World, k, tok) IN
        Call("ConfirmDelivery", buyer, k, tok,
             Then(v, confirm_delivery(v.st, k, buyer, tok, now)))

Cancel ==
    \E buyer \in Parties, k \in Keys, tok \in Owners \X Mints :
        LET v == CancelEscrow(World, k, buyer, tok) IN
        Call("Cancel", buyer, k, tok,
             Then(v, cancel_escrow(v.st, k, buyer, tok, now)))

Resolve ==
    \E resolver \in Parties, k \in Keys, tok \in Owners \X Mints :
        LET v == ResolveTimeout(World, k, resolver, tok) IN
        Call("ResolveTimeout", resolver, k, tok,
             Then(v, resolve_timeout(v.st, k, tok, now)))

NoCall == [op |-> "None", caller |-> PubkeyDefault, key |-> <<"alice", "usdc">>,
           tok |-> <<PubkeyDefault, "usdc">>, err |-> "Ok"]

\* the cluster clock advances between instructions
Tick ==
    /\ now < MaxTime
    /\ now' = now + 1
    /\ last' = NoCall
    /\ UNCHANGED <<escrows, vault, bal, released, releases>>

Init ==
    /\ escrows = [k \in Keys |-> NoEscrow]
    /\ vault = [k \in Keys |-> NoVault]
    /\ bal = [a \in Owners \X Mints |->
                 IF a[1] \in Buyers THEN InitBalance ELSE 0]
    /\ now = 1
    /\ released = [k \in Keys |-> 0]
    /\ releases = [k \in Keys |-> 0]
    /\ last = NoCall

Next == Create \/ Accept \/ Confirm \/ Cancel \/ Resolve \/ Tick

Spec == Init /\ [][Next]_vars

(* ------------------- instructions as values ---------------------------- *)
\* One instruction of the program: its name, its signer, the escrow address
\* it names, the token account passed and (Create only) the arguments.
Ix(op, caller, k, tok, amount, dur, desc) ==
    [op |-> op, caller |-> caller, key |-> k, tok |-> tok,
     amount |-> amount, dur |-> dur, desc |-> desc]

\* the instructions named op that can be sent about the escrows in keys
Ixs(op, keys, amounts, durs) ==
    IF op = "Create"
    THEN {Ix(op, k[1], k, tok, amount, dur, desc) :
             k \in keys, tok \in Owners \X Mints,
             amount \in amounts, dur \in durs, desc \in Descriptions}
    ELSE IF op = "Accept"
    THEN {Ix(op, caller, k, <<PubkeyDefault, k[2]>>, 0, 0, "") :
             caller \in Parties, k \in keys}
    ELSE {Ix(op, caller, k, tok, 0, 0, "") :
             caller \in Parties, k \in keys, tok \in Owners \X Mints}

\* the program's entry point: account validation, then the handler
Process(w, ix, clock) ==
    LET k == ix.key IN
    CASE ix.op = "Create" ->
           LET v == CreateEscrow(w, ix.caller, k[2], ix.tok) IN
           Then(v, create_escrow(v.st, ix.caller, k[2], ix.amount, ix.dur,
                                 ix.desc, clock))
      [] ix.op = "Accept" ->
           LET v == AcceptEscrow(w, k) IN
           Then(v, accept_escrow(v.st, k, ix.caller, clock))
      [] ix.op = "ConfirmDelivery" ->
           LET v == ConfirmDelivery(w, k, ix.tok) IN
           Then(v, confirm_delivery(v.st, k, ix.caller, ix.tok, clock))
      [] ix.op = "Cancel" ->
           LET v == CancelEscrow(w, k, ix.caller, ix.tok) IN
           Then(v, cancel_escrow(v.st, k, ix.caller, ix.tok, clock))
      [] ix.op = "ResolveTimeout" ->
           LET v == ResolveTimeout(w, k, ix.caller, ix.tok) IN
           Then(v, resolve_timeout(v.st, k, ix.tok, clock))

(* ------------------- the clock running past every deadline ------------- *)
\* The token account a client passes with an instruction: the signer's own
\* for Create and Cancel, the recorded seller's for ConfirmDelivery and
\* ResolveTimeout.
ClientAccount(ix) ==
    IF ix.op \in {"ConfirmDelivery", "ResolveTimeout"}
    THEN <<escrows[ix.key].seller, ix.key[2]>>
    ELSE IF ix.op = "Accept" THEN <<PubkeyDefault, ix.key[2]>>
    ELSE <<ix.caller, ix.key[2]>>

\* any party sends the instruction op with the client's token account
Send(op) ==
    \E ix \in Ixs(op, Keys, {InitBalance}, 0..MaxDuration) :
        /\ ix.op = "Create" \/ escrows[ix.key] # NoEscrow
        /\ ix.tok = ClientAccount(ix)
        /\ Call(op, ix.caller, ix.key, ix.tok, Process(World, ix, now))

\* Escrows are created while now <= MaxTime, so every timeout_at is at most
\* MaxTime + MaxDuration; the clock runs on until then.
SendCreate == now <= MaxTime /\ Send("Create")

SendAccept == Send("Accept")

SendConfirm == Send("ConfirmDelivery")

SendCancel == Send("Cancel")

\* some party calls ResolveTimeout, passing the recorded seller's account
ResolveAttempt == Send("ResolveTimeout")

TickOn ==
    /\ now < MaxTime + MaxDuration
    /\ now' = now + 1
    /\ last' = NoCall
    /\ UNCHANGED <<escrows, vault, bal, released, releases>>

NextLive ==
    \/ SendCreate \/ SendAccept \/ SendConfirm \/ SendCancel
    \/ ResolveAttempt \/ TickOn

\* the clock keeps advancing and ResolveTimeout keeps being attempted
SpecLive ==
    Init /\ [][NextLive]_vars /\ WF_vars(TickOn) /\ WF_vars(ResolveAttempt)

(* ======================= properties of the program ===================== *)
Terminal == {"Completed", "Cancelled", "TimedOut"}
Exists(k) == escrows[k] # NoEscrow
Ledger == <<escrows, vault, bal, released, releases>>

\* the step is the instruction `op` processed on the escrow at k
Called(op, k) == last'.op = op /\ last'.key = k /\ Exists(k)

\* C1: in every reachable state of an escrow, vault balance plus the amount
\* released so far equals the recorded amount, and funds have left the vault
\* at most once.
Conservation ==
    \A k \in Keys : Exists(k) =>
        /\ vault[k] + released[k] = escrows[k].amount
        /\ releases[k] <= 1

\* an escrow whose nonzero deposit has been released, in full and once
ConservationWitness ==
    \E k \in Keys : /\ Exists(k) /\ escrows[k].amount > 0
                    /\ releases[k] = 1 /\ released[k] = escrows[k].amount
                    /\ last.err = "Ok"
                    /\ last.op \in {"ConfirmDelivery", "Cancel", "ResolveTimeout"}

\* C2: the vault balance is determined by the record's state: amount while
\* Created or Accepted, 0 while Completed, Cancelled or TimedOut.
VaultMatchesState ==
    \A k \in Keys : Exists(k) =>
        /\ escrows[k].state \in {"Created", "Accepted"} => vault[k] = escrows[k].amount
        /\ escrows[k].state \in Terminal => vault[k] = 0

\* an escrow of a nonzero amount that ResolveTimeout took to TimedOut, its
\* vault emptied
VaultMatchesStateWitness ==
    \E k \in Keys : /\ Exists(k) /\ escrows[k].amount > 0
                    /\ escrows[k].state = "TimedOut" /\ vault[k] = 0
                    /\ last.op = "ResolveTimeout" /\ last.err = "Ok"

\* C3: every change of an escrow's state follows one of the four edges
\* Created->Accepted, Created->Cancelled, Accepted->Completed,
\* Accepted->TimedOut; nothing regresses, skips or leaves a terminal state.
Edges == {<<"Created", "Accepted">>, <<"Created", "Cancelled">>,
          <<"Accepted", "Completed">>, <<"Accepted", "TimedOut">>}

StateMonotonic ==
    [][\A k \in Keys :
          (Exists(k) /\ escrows'[k] # escrows[k])
              => /\ escrows'[k] # NoEscrow
                 /\ <<escrows[k].state, escrows'[k].state>> \in Edges]_vars

\* an escrow that went Created -> Accepted -> Completed
StateMonotonicWitness ==
    \E k \in Keys : /\ Exists(k) /\ escrows[k].state = "Completed"
                    /\ escrows[k].accepted_at > 0
                    /\ last.op = "ConfirmDelivery" /\ last.err = "Ok"

\* the token account passed is the recorded seller's, of the escrow's mint
SellerAccount(k, tok) == tok = <<escrows[k].seller, escrows[k].mint>>
\* the token account passed is the signer's own, of the escrow's mint
SignerAccount(k, tok) == tok = <<last'.caller, escrows[k].mint>>

\* C4 as stated: ConfirmDelivery succeeds only for the buyer, Cancel only for
\* the buyer in state Created, and a call by any other identity that passes
\* the state guard fails with UnauthorizedBuyer.
AuthorizationAsClaimed ==
    [][\A k \in Keys :
        /\ Called("ConfirmDelivery", k) =>
             /\ last'.err = "Ok" => last'.caller = escrows[k].buyer
             /\ (last'.caller # escrows[k].buyer /\ escrows[k].state = "Accepted")
                    => last'.err = "UnauthorizedBuyer"
        /\ Called("Cancel", k) =>
             /\ last'.err = "Ok" => /\ last'.caller = escrows[k].buyer
                                    /\ escrows[k].state = "Created"
             /\ (last'.caller # escrows[k].buyer /\ escrows[k].state = "Created")
                    => last'.err = "UnauthorizedBuyer"]_vars

\* C4 (amended): ConfirmDelivery succeeds only for the buyer, Cancel only for
\* the buyer in state Created; a call by any other identity that passes the
\* state guard fails with UnauthorizedBuyer when the token account passed
\* satisfies the instruction's account constraints, and with the constraint
\* violation (before the handler runs) when it does not.
AuthorizationSound ==
    [][\A k \in Keys :
        /\ Called("ConfirmDelivery", k) =>
             /\ last'.err = "Ok" => last'.caller = escrows[k].buyer
             /\ (last'.caller # escrows[k].buyer /\ escrows[k].state = "Accepted")
                    => last'.err = IF SellerAccount(k, last'.tok)
                                   THEN "UnauthorizedBuyer" ELSE "ConstraintRaw"
        /\ Called("Cancel", k) =>
             /\ last'.err = "Ok" => /\ last'.caller = escrows[k].buyer
                                    /\ escrows[k].state = "Created"
             /\ (last'.caller # escrows[k].buyer /\ escrows[k].state = "Created")
                    => last'.err = IF SignerAccount(k, last'.tok)
                                   THEN "UnauthorizedBuyer" ELSE "ConstraintRaw"]_vars

\* a party other than the buyer called ConfirmDelivery on an Accepted escrow
\* and was refused as unauthorised
AuthorizationWitness ==
    \E k \in Keys : /\ Exists(k) /\ escrows[k].state = "Accepted"
                    /\ last.op = "ConfirmDelivery" /\ last.key = k
                    /\ last.caller # escrows[k].buyer
                    /\ last.err = "UnauthorizedBuyer"

\* C5 as stated: while Accepted, ResolveTimeout fails with TimeoutNotReached
\* for every now < timeout_at and succeeds for every now >= timeout_at,
\* setting state = TimedOut and completed_at = now.
TimeoutGatingAsClaimed ==
    [][\A k \in Keys :
        (Called("ResolveTimeout", k) /\ escrows[k].state = "Accepted") =>
            IF now < escrows[k].timeout_at
            THEN last'.err = "TimeoutNotReached" /\ escrows'[k] = escrows[k]
            ELSE /\ last'.err = "Ok"
                 /\ escrows'[k] = [escrows[k] EXCEPT !.state = "TimedOut",
                                                     !.completed_at = now]]_vars

\* C5 (amended): while Accepted, a ResolveTimeout that is passed the recorded
\* seller's token account fails with TimeoutNotReached for every
\* now < timeout_at and succeeds for every now >= timeout_at, setting
\* state = TimedOut and completed_at = now; passed any other token account it
\* fails with the constraint violation at every clock value.
TimeoutGating ==
    [][\A k \in Keys :
        (Called("ResolveTimeout", k) /\ escrows[k].state = "Accepted") =>
            IF ~SellerAccount(k, last'.tok)
            THEN last'.err = "ConstraintRaw" /\ escrows'[k] = escrows[k]
            ELSE IF now < escrows[k].timeout_at
            THEN last'.err = "TimeoutNotReached" /\ escrows'[k] = escrows[k]
            ELSE /\ last'.err = "Ok"
                 /\ escrows'[k] = [escrows[k] EXCEPT !.state = "TimedOut",
                                                     !.completed_at = now]]_vars

\* ResolveTimeout succeeded at the first admissible instant, now = timeout_at,
\* on an escrow accepted before its deadline
TimeoutGatingWitness ==
    \E k \in Keys : /\ Exists(k) /\ escrows[k].state = "TimedOut"
                    /\ last.op = "ResolveTimeout" /\ last.err = "Ok"
                    /\ escrows[k].completed_at = escrows[k].timeout_at
                    /\ escrows[k].accepted_at < escrows[k].timeout_at
                    /\ now = escrows[k].timeout_at

MutatingOps == {"Accept", "ConfirmDelivery", "Cancel", "ResolveTimeout"}

\* C6 as stated: once the state is Completed, Cancelled or TimedOut, every
\* further Accept, ConfirmDelivery, Cancel and ResolveTimeout fails with
\* InvalidState.
TerminalExclusiveAsClaimed ==
    [][\A k \in Keys : \A op \in MutatingOps :
        (Called(op, k) /\ escrows[k].state \in Terminal)
            => last'.err = "InvalidState"]_vars

\* the account constraints of the instruction `op`, on the call of this step
AccountsValid(op, k) ==
    CASE op = "Accept" -> TRUE
      [] op = "Cancel" -> SignerAccount(k, last'.tok)
      [] OTHER -> SellerAccount(k, last'.tok)

\* C6 (amended): once the state is Completed, Cancelled or TimedOut, every
\* further Accept, ConfirmDelivery, Cancel and ResolveTimeout, by any caller
\* at any clock value, fails and changes nothing: with InvalidState when the
\* token account passed satisfies the instruction's account constraints, and
\* with the constraint violation when it does not.
TerminalExclusive ==
    [][\A k \in Keys : \A op \in MutatingOps :
        (Called(op, k) /\ escrows[k].state \in Terminal)
            => /\ last'.err = IF AccountsValid(op, k)
                              THEN "InvalidState" ELSE "ConstraintRaw"
               /\ UNCHANGED Ledger]_vars

\* the buyer called ConfirmDelivery again on a completed escrow and was
\* refused with InvalidState
TerminalExclusiveWitness ==
    \E k \in Keys : /\ Exists(k) /\ escrows[k].state \in Terminal
                    /\ last.op = "ConfirmDelivery" /\ last.key = k
                    /\ last.caller = escrows[k].buyer
                    /\ last.err = "InvalidState"

\* C7: a successful ConfirmDelivery or ResolveTimeout adds exactly amount to
\* the recorded seller's balance and changes no other party's balance; a
\* successful Cancel does the same for the recorded buyer.
Destination ==
    [][\A k \in Keys :
        /\ ((Called("ConfirmDelivery", k) \/ Called("ResolveTimeout", k))
               /\ last'.err = "Ok")
             => bal' = [bal EXCEPT ![<<escrows[k].seller, escrows[k].mint>>]
                                       = @ + escrows[k].amount]
        /\ (Called("Cancel", k) /\ last'.err = "Ok")
             => bal' = [bal EXCEPT ![<<escrows[k].buyer, escrows[k].mint>>]
                                       = @ + escrows[k].amount]]_vars

\* a third party resolved the timeout of a nonzero escrow and the seller,
\* not the resolver, holds the funds
DestinationWitness ==
    \E k \in Keys : /\ Exists(k) /\ escrows[k].amount > 0
                    /\ last.op = "ResolveTimeout" /\ last.err = "Ok"
                    /\ last.caller \notin {escrows[k].seller, escrows[k].buyer}
                    /\ escrows[k].seller # escrows[k].buyer
                    /\ bal[<<escrows[k].seller, escrows[k].mint>>] = escrows[k].amount
                    /\ bal[<<last.caller, escrows[k].mint>>] = 0

\* record and funds agree: record and vault exist together, an unreleased
\* vault holds the recorded amount, and the state is terminal exactly when
\* the vault has been released
PairedEffects ==
    \A k \in Keys :
        /\ (escrows[k] = NoEscrow) <=> (vault[k] = NoVault)
        /\ Exists(k) => /\ (escrows[k].state \in Terminal) <=> (releases[k] = 1)
                        /\ releases[k] = 0 => vault[k] = escrows[k].amount

\* C8: every rejected instruction, whatever the error, leaves the Escrow
\* record, the vault and every party's balance as they were, and no state
\* shows a record mutation without its fund movement or the reverse.
FailureAtomic ==
    [][/\ (last'.op # "None" /\ last'.err # "Ok") => UNCHANGED Ledger
       /\ PairedEffects']_vars

\* a Create whose deposit transfer failed: neither record nor vault exists
\* and the buyer still holds the funds
FailureAtomicWitness ==
    \E k \in Keys : /\ last.op = "Create" /\ last.key = k
                    /\ last.err = "InsufficientFunds"
                    /\ escrows[k] = NoEscrow /\ vault[k] = NoVault
                    /\ bal[<<k[1], k[2]>>] = InitBalance

\* C9: every existing Escrow Record has amount > 0 (Create with amount == 0
\* fails and creates nothing).
AmountPositive ==
    \A k \in Keys : Exists(k) => escrows[k].amount > 0

\* C10: every existing Escrow Record has timeout_at > created_at (Create with
\* timeout_duration <= 0 fails and creates nothing).
TimeoutAfterCreation ==
    \A k \in Keys : Exists(k) => escrows[k].timeout_at > escrows[k].created_at

\* C11 as stated: in every reachable state the seller field is the sentinel
\* (Pubkey::default) if and only if state == Created.
SellerSentinelAsClaimed ==
    \A k \in Keys : Exists(k) =>
        ((escrows[k].seller = PubkeyDefault) <=> (escrows[k].state = "Created"))

\* C11 (amended): in every reachable state the seller field is the sentinel
\* if and only if no Accept has succeeded, that is, if and only if state is
\* Created or Cancelled.
SellerSentinel ==
    \A k \in Keys : Exists(k) =>
        ((escrows[k].seller = PubkeyDefault)
            <=> (escrows[k].state \in {"Created", "Cancelled"}))

\* a seller accepted: the field names that party and the state has left
\* Created
SellerSentinelWitness ==
    \E k \in Keys : /\ Exists(k) /\ escrows[k].state = "Accepted"
                    /\ last.op = "Accept" /\ last.err = "Ok"
                    /\ escrows[k].seller = last.caller
                    /\ escrows[k].seller \in Parties

\* the timestamps that are set are those of the transitions the state shows
TimestampsMatch ==
    \A k \in Keys : Exists(k) =>
        /\ (escrows[k].accepted_at # 0)
              <=> (escrows[k].state \in {"Accepted", "Completed", "TimedOut"})
        /\ (escrows[k].completed_at # 0)
              <=> (escrows[k].state \in {"Completed", "TimedOut"})
        /\ (escrows[k].cancelled_at # 0) <=> (escrows[k].state = "Cancelled")

\* C12: each of accepted_at, completed_at and cancelled_at is nonzero if and
\* only if the transition that writes it has occurred (Accept; ConfirmDelivery
\* or ResolveTimeout; Cancel), and each is written at most once: only while
\* still zero, and only by its own transition.
TimestampsOnce ==
    [][/\ TimestampsMatch'
       /\ \A k \in Keys : Exists(k) =>
            /\ escrows'[k].accepted_at # escrows[k].accepted_at
                 => /\ escrows[k].accepted_at = 0
                    /\ Called("Accept", k) /\ last'.err = "Ok"
            /\ escrows'[k].completed_at # escrows[k].completed_at
                 => /\ escrows[k].completed_at = 0
                    /\ Called("ConfirmDelivery", k) \/ Called("ResolveTimeout", k)
                    /\ last'.err = "Ok"
            /\ escrows'[k].cancelled_at # escrows[k].cancelled_at
                 => /\ escrows[k].cancelled_at = 0
                    /\ Called("Cancel", k) /\ last'.err = "Ok"]_vars

\* an escrow accepted and later completed: both stamps set, at their own
\* clock values, cancelled_at still zero
TimestampsOnceWitness ==
    \E k \in Keys : /\ Exists(k) /\ escrows[k].state = "Completed"
                    /\ escrows[k].accepted_at > 0
                    /\ escrows[k].completed_at > escrows[k].accepted_at
                    /\ escrows[k].cancelled_at = 0
                    /\ last.op = "ConfirmDelivery" /\ last.err = "Ok"

\* the step attempts an operation from a non-terminal state that is not the
\* operation's source state
OffSource(k) ==
    \/ /\ escrows[k].state = "Accepted"
       /\ Called("Accept", k) \/ Called("Cancel", k)
    \/ /\ escrows[k].state = "Created"
       /\ Called("ConfirmDelivery", k) \/ Called("ResolveTimeout", k)

\* C13 as stated: in state Accepted, Cancel and Accept fail with InvalidState
\* and the vault keeps amount; in state Created, ConfirmDelivery and
\* ResolveTimeout fail with InvalidState, whatever the caller and the clock.
WrongSourceAsClaimed ==
    [][\A k \in Keys :
        OffSource(k) => /\ last'.err = "InvalidState"
                        /\ vault'[k] = escrows[k].amount]_vars

\* C13 (amended): such an operation fails and changes nothing, whatever the
\* caller and the clock: with InvalidState (never UnauthorizedBuyer or
\* TimeoutNotReached) when the token account passed satisfies the
\* instruction's account constraints, and with the constraint violation when
\* it does not.
WrongSource ==
    [][\A k \in Keys :
        OffSource(k) => /\ last'.err = IF AccountsValid(last'.op, k)
                                       THEN "InvalidState" ELSE "ConstraintRaw"
                        /\ vault'[k] = escrows[k].amount
                        /\ UNCHANGED Ledger]_vars

\* the buyer tried to cancel an accepted escrow and was refused with
\* InvalidState, the vault still funded
WrongSourceWitness ==
    \E k \in Keys : /\ Exists(k) /\ escrows[k].state = "Accepted"
                    /\ last.op = "Cancel" /\ last.key = k
                    /\ last.caller = escrows[k].buyer
                    /\ last.err = "InvalidState"
                    /\ escrows[k].amount > 0 /\ vault[k] = escrows[k].amount

\* C14: the seller field is written only by a successful Accept on a record
\* whose seller is still unset, no other step changes it, AlreadyAccepted is
\* never returned, and an Accept on an escrow that has left Created fails
\* with InvalidState.
SellerOnce ==
    [][/\ last'.err # "AlreadyAccepted"
       /\ \A k \in Keys : Exists(k) =>
            /\ escrows'[k].seller # escrows[k].seller
                 => /\ Called("Accept", k) /\ last'.err = "Ok"
                    /\ escrows[k].seller = PubkeyDefault
                    /\ escrows'[k].seller = last'.caller
            /\ (Called("Accept", k) /\ escrows[k].state # "Created")
                 => last'.err = "InvalidState" /\ escrows'[k] = escrows[k]]_vars

\* a second Accept, by a party other than the recorded seller, was refused
\* with InvalidState and the seller kept
SellerOnceWitness ==
    \E k \in Keys : /\ Exists(k) /\ escrows[k].state = "Accepted"
                    /\ last.op = "Accept" /\ last.key = k
                    /\ last.err = "InvalidState"
                    /\ last.caller # escrows[k].seller
                    /\ escrows[k].seller # PubkeyDefault

\* the result and the accounts after ResolveTimeout on k, signed by resolver
ResolveOutcome(resolver, k, tok) ==
    LET v == ResolveTimeout(World, k, resolver, tok)
        out == Then(v, resolve_timeout(v.st, k, tok, now))
    IN [err |-> out.err, st |-> Commit(World, out)]

\* C15: for the same escrow state and clock value the outcome of
\* ResolveTimeout (success or error kind, resulting record, recipient and
\* amount of the transfer) is the same for every caller identity.
Permissionless ==
    [][\A k \in Keys :
        Called("ResolveTimeout", k) =>
            \A c \in Parties :
                ResolveOutcome(c, k, last'.tok) = [err |-> last'.err, st |-> World']]_vars

\* a party that is neither buyer nor seller resolved the timeout
PermissionlessWitness ==
    \E k \in Keys : /\ Exists(k) /\ escrows[k].state = "TimedOut"
                    /\ last.op = "ResolveTimeout" /\ last.err = "Ok"
                    /\ last.caller # escrows[k].seller
                    /\ last.caller # escrows[k].buyer
                    /\ escrows[k].completed_at = now

\* C16: once the record exists, no instruction, successful or rejected,
\* changes its buyer, mint, amount, description, created_at or timeout_at.
CreationFieldsFrozen ==
    [][\A k \in Keys : Exists(k) =>
        /\ escrows'[k].buyer = escrows[k].buyer
        /\ escrows'[k].mint = escrows[k].mint
        /\ escrows'[k].amount = escrows[k].amount
        /\ escrows'[k].description = escrows[k].description
        /\ escrows'[k].created_at = escrows[k].created_at
        /\ escrows'[k].timeout_at = escrows[k].timeout_at]_vars

\* an escrow accepted after the clock moved on and then timed out, its
\* creation fields as Create wrote them
CreationFieldsFrozenWitness ==
    \E k \in Keys : /\ Exists(k) /\ escrows[k].state = "TimedOut"
                    /\ escrows[k].accepted_at > escrows[k].created_at
                    /\ escrows[k].timeout_at = escrows[k].created_at + 1
                    /\ escrows[k].amount = InitBalance
                    /\ escrows[k].buyer = k[1] /\ escrows[k].mint = k[2]
                    /\ escrows[k].description \in Descriptions

\* C17: Create for an identity that already has an Escrow Record fails and
\* leaves the record, its vault and the buyer's balance unchanged; a record
\* exists exactly when its vault exists.
CreateOnce ==
    [][/\ \A k \in Keys : Called("Create", k) =>
            /\ last'.err # "Ok"
            /\ escrows'[k] = escrows[k] /\ vault'[k] = vault[k]
            /\ bal'[<<k[1], k[2]>>] = bal[<<k[1], k[2]>>]
       /\ \A k \in Keys : (escrows'[k] = NoEscrow) <=> (vault'[k] = NoVault)]_vars

\* a second Create by the same buyer for the same mint was refused while the
\* first escrow still holds its deposit
CreateOnceWitness ==
    \E k \in Keys : /\ Exists(k) /\ last.op = "Create" /\ last.key = k
                    /\ last.err = "AccountInUse"
                    /\ escrows[k].state = "Created"
                    /\ escrows[k].amount > 0 /\ vault[k] = escrows[k].amount

ReleaseOps == {"ConfirmDelivery", "Cancel", "ResolveTimeout"}

\* C19: a successful ConfirmDelivery, Cancel or ResolveTimeout moves out of
\* the vault exactly the balance it held before the call and leaves it at 0.
ReleaseAll ==
    [][\A k \in Keys : \A op \in ReleaseOps :
        (Called(op, k) /\ last'.err = "Ok")
            => /\ released'[k] - released[k] = vault[k]
               /\ vault'[k] = 0]_vars

\* a Cancel refunded the whole nonzero deposit to the buyer
ReleaseAllWitness ==
    \E k \in Keys : /\ Exists(k) /\ escrows[k].state = "Cancelled"
                    /\ last.op = "Cancel" /\ last.err = "Ok"
                    /\ escrows[k].amount > 0 /\ vault[k] = 0
                    /\ released[k] = escrows[k].amount
                    /\ bal[<<k[1], k[2]>>] = InitBalance

(* ------------------- two escrows side by side -------------------------- *)
\* Two buyers, each with the one escrow address their key and the mint
\* derive; both hold InitBalance tokens.
PairBuyers == {"alice", "bob"}
PairKeys == PairBuyers \X Mints
PairAmounts == {InitBalance, InitBalance + 1}

InitPair ==
    /\ escrows = [k \in PairKeys |-> NoEscrow]
    /\ vault = [k \in PairKeys |-> NoVault]
    /\ bal = [a \in Owners \X Mints |->
                 IF a[1] \in PairBuyers THEN InitBalance ELSE 0]
    /\ now = 1
    /\ released = [k \in PairKeys |-> 0]
    /\ releases = [k \in PairKeys |-> 0]
    /\ last = NoCall

\* An instruction named op is processed and succeeds. A rejected instruction
\* leaves every account as it was, so the accepted ones reach every ledger.
Accepted(op) ==
    \E ix \in Ixs(op, PairKeys, PairAmounts, {0, MaxDuration}) :
        LET out == Process(World, ix, now) IN
        /\ out.err = "Ok"
        /\ Call(op, ix.caller, ix.key, ix.tok, out)

PairCreate == Accepted("Create")

PairAccept == Accepted("Accept")

PairConfirm == Accepted("ConfirmDelivery")

PairCancel == Accepted("Cancel")

PairResolve == Accepted("ResolveTimeout")

\* The instructions compared are processed in one slot: the clock stands
\* still, and a timeout_duration of 0 makes ResolveTimeout succeed in it.
NextPair ==
    \/ PairCreate \/ PairAccept \/ PairConfirm \/ PairCancel
    \/ PairResolve

SpecPair == InitPair /\ [][NextPair]_vars

\* every instruction, accepted or rejected, that can be sent about k
IxsOn(k) ==
    UNION {Ixs(op, {k}, Amounts, {MaxDuration}) :
              op \in {"Create", "Accept"} \cup ReleaseOps}

\* the accounts after ix was processed on w
After(w, ix) == Commit(w, Process(w, ix, now))

\* ix leaves the record and the vault of every other escrow as they were
Frame(ix) ==
    \A k \in PairKeys \ {ix.key} :
        /\ After(World, ix).escrows[k] = escrows[k]
        /\ After(World, ix).vault[k] = vault[k]

\* processed in either order, ix1 and ix2 have the same two outcomes and
\* leave the same accounts
Commute(ix1, ix2) ==
    LET r1 == Process(World, ix1, now)
        s2 == Process(World, ix2, now)
        w1 == Commit(World, r1)
        w2 == Commit(World, s2)
        r2 == Process(w1, ix2, now)
        s1 == Process(w2, ix1, now)
    IN /\ r1.err = s1.err
       /\ r2.err = s2.err
       /\ Commit(w1, r2) = Commit(w2, s1)

\* rel pays into the token account that the Create instruction cr draws on
Funds(rel, cr) ==
    /\ rel.op \in ReleaseOps
    /\ cr.op = "Create"
    /\ rel.tok = <<cr.caller, cr.key[2]>>

\* each two different escrows, listed once (commuting is symmetric)
KeyPairs ==
    {<<CHOOSE k \in ks : TRUE, CHOOSE k \in ks : k # (CHOOSE j \in ks : TRUE)>> :
        ks \in {x \in SUBSET PairKeys : Cardinality(x) = 2}}

\* C18 as stated: an operation on one escrow leaves every other escrow's
\* record and vault unchanged, and any two operations on different escrows
\* commute.
IndependentAsClaimed ==
    /\ \A k \in PairKeys : \A ix \in IxsOn(k) : Frame(ix)
    /\ \A pair \in KeyPairs :
           \A ix1 \in IxsOn(pair[1]) : \A ix2 \in IxsOn(pair[2]) :
               Commute(ix1, ix2)

\* C18, amended: an operation on one escrow leaves every other escrow's
\* record and vault unchanged, and two operations on different escrows
\* commute unless one is a Create and the other a release into the token
\* account that Create draws on.
Independent ==
    /\ \A k \in PairKeys : \A ix \in IxsOn(k) : Frame(ix)
    /\ \A pair \in KeyPairs :
           \A ix1 \in IxsOn(pair[1]) : \A ix2 \in IxsOn(pair[2]) :
               (~Funds(ix1, ix2) /\ ~Funds(ix2, ix1)) => Commute(ix1, ix2)

\* both escrows are open, one holding funds the other buyer can be paid
\* from, and an instruction has just been accepted on the other
IndependentWitness ==
    \E k1 \in PairKeys : \E k2 \in PairKeys \ {k1} :
        /\ Exists(k1) /\ escrows[k1].state = "Accepted"
        /\ escrows[k1].seller = k2[1] /\ vault[k1] > 0
        /\ Exists(k2) /\ escrows[k2].state = "Accepted" /\ vault[k2] > 0
        /\ last.key = k2 /\ last.op = "Accept" /\ last.err = "Ok"

\* C20: with the clock advancing and ResolveTimeout attempted again and
\* again, every escrow that is Accepted eventually is Completed or TimedOut
\* with its vault emptied and the amount in the seller's balance, whatever
\* the buyer does.
NeverStuckAccepted ==
    \A k \in Keys :
        (escrows[k] # NoEscrow /\ escrows[k].state = "Accepted")
            ~> (/\ escrows[k] # NoEscrow
                /\ escrows[k].state \in {"Completed", "TimedOut"}
                /\ vault[k] = 0 /\ released[k] = escrows[k].amount
                /\ bal[<<escrows[k].seller, escrows[k].mint>>] >= escrows[k].amount)

\* an escrow created at the last admissible instant, resolved once the clock
\* had run on to its deadline, the buyer never having confirmed
NeverStuckAcceptedWitness ==
    \E k \in Keys : /\ Exists(k) /\ escrows[k].state = "TimedOut"
                    /\ escrows[k].amount > 0
                    /\ escrows[k].timeout_at > MaxTime
                    /\ now >= escrows[k].timeout_at
                    /\ last.op = "ResolveTimeout" /\ last.err = "Ok"

\* C21: every step that decreases a vault balance while now < timeout_at is
\* a successful ConfirmDelivery or Cancel on that escrow signed by the
\* record's buyer; no call signed by anyone else releases funds before the
\* deadline.
BuyerOnlyBeforeDeadline ==
    [][\A k \in Keys :
        (Exists(k) /\ vault'[k] < vault[k] /\ now < escrows[k].timeout_at) =>
            /\ last'.op \in {"ConfirmDelivery", "Cancel"}
            /\ last'.key = k /\ last'.err = "Ok"
            /\ last'.caller = escrows[k].buyer]_vars

\* the buyer confirmed delivery before the deadline of an escrow that another
\* party had accepted, and the deposit left the vault
BuyerOnlyBeforeDeadlineWitness ==
    \E k \in Keys : /\ Exists(k) /\ escrows[k].state = "Completed"
                    /\ last.op = "ConfirmDelivery" /\ last.err = "Ok"
                    /\ last.caller = escrows[k].buyer
                    /\ escrows[k].seller # escrows[k].buyer
                    /\ now < escrows[k].timeout_at
                    /\ escrows[k].amount > 0 /\ vault[k] = 0
                    /\ released[k] = escrows[k].amount

\* the escrow at k is Accepted and its deadline has passed
PastDeadline(k) ==
    Exists(k) /\ escrows[k].state = "Accepted" /\ now >= escrows[k].timeout_at

\* in w the seller of k has been paid the amount, once, out of the vault
PaidOnce(w, k) ==
    LET seller == <<escrows[k].seller, escrows[k].mint>> IN
    /\ w.releases[k] = releases[k] + 1
    /\ w.released[k] = released[k] + escrows[k].amount
    /\ w.vault[k] = vault[k] - escrows[k].amount
    /\ w.bal[seller] = bal[seller] + escrows[k].amount
    /\ \A a \in (Owners \X Mints) \ {seller} : w.bal[a] = bal[a]

\* The buyer's ConfirmDelivery (token account tokC) and a ResolveTimeout by
\* resolver (token account tokR) on k, processed in both orders, the second
\* at the clock value later: each succeeds when it comes first, fails with
\* InvalidState when it comes second, and the seller is paid once.
RaceSettles(k, tokC, resolver, tokR, later) ==
    LET c == Ix("ConfirmDelivery", escrows[k].buyer, k, tokC, 0, 0, "")
        r == Ix("ResolveTimeout", resolver, k, tokR, 0, 0, "")
        c1 == Process(World, c, now)
        r2 == Process(Commit(World, c1), r, later)
        r1 == Process(World, r, now)
        c2 == Process(Commit(World, r1), c, later)
    IN /\ c1.err = "Ok" /\ c1.st.escrows[k].state = "Completed"
       /\ r2.err = "InvalidState"
       /\ PaidOnce(Commit(Commit(World, c1), r2), k)
       /\ r1.err = "Ok" /\ r1.st.escrows[k].state = "TimedOut"
       /\ c2.err = "InvalidState"
       /\ PaidOnce(Commit(Commit(World, r1), c2), k)

\* C22 as stated: while Accepted at now >= timeout_at, the buyer's
\* ConfirmDelivery and anyone's ResolveTimeout both succeed; in either order
\* exactly one succeeds, the other fails with InvalidState, and the seller
\* receives amount exactly once.
DeadlineRaceAsClaimed ==
    \A k \in Keys : PastDeadline(k) =>
        \A tokC \in Owners \X Mints, tokR \in Owners \X Mints :
            \A resolver \in Parties, later \in {now, now + 1} :
                RaceSettles(k, tokC, resolver, tokR, later)

\* C22, amended: the same, for a ConfirmDelivery and a ResolveTimeout that
\* are each passed the recorded seller's token account.
DeadlineRace ==
    \A k \in Keys : PastDeadline(k) =>
        \A tokC \in Owners \X Mints, tokR \in Owners \X Mints :
            (SellerAccount(k, tokC) /\ SellerAccount(k, tokR)) =>
                \A resolver \in Parties, later \in {now, now + 1} :
                    RaceSettles(k, tokC, resolver, tokR, later)

\* after the deadline the buyer's ConfirmDelivery came first and paid the
\* seller; the ResolveTimeout that followed was refused with InvalidState
DeadlineRaceWitness ==
    \E k \in Keys : /\ Exists(k) /\ escrows[k].state = "Completed"
                    /\ escrows[k].completed_at >= escrows[k].timeout_at
                    /\ escrows[k].accepted_at < escrows[k].timeout_at
                    /\ last.op = "ResolveTimeout" /\ last.key = k
                    /\ last.err = "InvalidState"
                    /\ escrows[k].amount > 0
                    /\ releases[k] = 1 /\ released[k] = escrows[k].amount

\* C23: an Escrow Record, once it exists, exists in every later state; once
\* Completed, Cancelled or TimedOut it never changes again, every later
\* Create for its buyer and mint fails, and Create succeeds only where no
\* record existed, so a (buyer, mint) pair has at most one escrow ever.
RecordPersists ==
    [][\A k \in Keys :
        /\ Exists(k) => escrows'[k] # NoEscrow
        /\ (Exists(k) /\ escrows[k].state \in Terminal) =>
              /\ escrows'[k] = escrows[k] /\ vault'[k] = vault[k]
              /\ (last'.op = "Create" /\ last'.key = k) => last'.err # "Ok"
        /\ (last'.op = "Create" /\ last'.key = k /\ last'.err = "Ok") =>
              ~Exists(k)]_vars

\* the buyer, refunded in full by Cancel, tried at a later time to create the
\* escrow again and was refused: the cancelled record still holds the address
RecordPersistsWitness ==
    \E k \in Keys : /\ Exists(k) /\ escrows[k].state = "Cancelled"
                    /\ now > escrows[k].cancelled_at
                    /\ last.op = "Create" /\ last.key = k
                    /\ last.caller = escrows[k].buyer
                    /\ last.tok = <<k[1], k[2]>>
                    /\ last.err = "AccountInUse"
                    /\ escrows[k].amount > 0
                    /\ bal[<<k[1], k[2]>>] = InitBalance
====
